---- MODULE Spec2Model ----
(***************************************************************************)
(* Footprint cover-set reduction of dbpro-gis/sentinel-data.               *)
(*                                                                         *)
(*   Policy A  copernicus_links.reduce_footprint_unique  (incremental      *)
(*             union growth over the records sorted by cloud cover)        *)
(*   Policy B  fetch_images.reduce_footprint_unique / find_uniques         *)
(*             (index-assisted elimination)                                *)
(*   Grouping  the filter and group-by-footprint steps shared by           *)
(*             filter_cover_set and smallest_cover_set                     *)
(*                                                                         *)
(* Geometry (shapely) is modelled exactly on a strip of unit cells: a      *)
(* shape is the set of cells it covers, its area the number of cells, its  *)
(* bounds the closed x-interval it spans.  Python's 0-based list indices   *)
(* are written 1-based throughout.                                         *)
(***************************************************************************)
EXTENDS Integers, Sequences, FiniteSets, TLC

VARIABLES
    pc,          \* position of the running program
    arg,         \* the list the caller passes to reduce_footprint_unique
    metas,       \* Policy A: the local, sorted copy of the records
    shapes,      \* Policy A: the parsed shapes, one per record
    idx,         \* Policy A: loop position of `for i, shape in enumerate(shapes)`
    union_area,  \* Policy A: <<>> for None, <<g>> for the running union g
    selected,    \* Policy A: the indices kept so far
    result,      \* the value returned by the last call
    prev,        \* the value the first call returned, once it is fed back
    runs,        \* number of completed calls
    rtree,       \* Policy B: the entries of the rtree index, [id, bounds]
    uniques,     \* Policy B: the ids classified unique so far (a list)
    sel_index,   \* Policy B: the id removed by the last iteration, 0 before
    is_sel,      \* Policy B: the ids the last iteration re-evaluated
    pool,        \* pipeline: the records parsed from the search result
    filtered,    \* pipeline: the working list of filter_cover_set
    stats,       \* pipeline: <<>> or <<[avgcover, maxcover]>> once computed
    meta_a,      \* merge_metas: the first list passed
    meta_b,      \* merge_metas: the second list passed
    merged,      \* merge_metas: the local list `metas`
    found_uuids, \* merge_metas: the uuids found so far
    b_idx,       \* merge_metas: loop position of `for meta in meta_b`
    entries,     \* search_terms: the entries collected so far
    max_index,   \* search_terms: total_results of the first page
    start,       \* search_terms: the start of the last request
    page,        \* search_terms: the local `result`, <<>> or <<last answer>>
    files,       \* dataset_checker: the content of each metadata file
    tiles,       \* dataset_checker: dataset.tiles
    filterargs,  \* dataset_checker: dataset.filterargs
    low_tiles,   \* dataset_checker: the tiles of the dataset filter returned
    low_filterargs \* dataset_checker: the filterargs of that dataset

varsA == <<metas, idx, union_area>>
varsB == <<rtree, uniques, sel_index, is_sel>>
varsG == <<pool, filtered>>
varsM == <<meta_a, meta_b, merged, found_uuids, b_idx>>
varsS == <<entries, max_index, start, page>>
varsD == <<files, tiles, filterargs, low_tiles, low_filterargs>>
varsX == <<stats, varsM, varsS, varsD>>
vars == <<pc, arg, shapes, selected, result, prev, runs, varsA, varsB, varsG, varsX>>

(* the variables of the programs that are not running *)
IdleM ==
    /\ meta_a = <<>>
    /\ meta_b = <<>>
    /\ merged = <<>>
    /\ found_uuids = <<>>
    /\ b_idx = 1

IdleS ==
    /\ entries = <<>>
    /\ max_index = 0
    /\ start = 0
    /\ page = <<>>

IdleD ==
    /\ files = <<>>
    /\ tiles = <<>>
    /\ filterargs = <<>>
    /\ low_tiles = <<>>
    /\ low_filterargs = <<>>

IdleX ==
    /\ stats = <<>>
    /\ IdleM
    /\ IdleS
    /\ IdleD

----------------------------------------------------------------------------
(* Bounds of the model *)

NumCells == 3
MaxPool == 3

Cells == 1..NumCells

(* cloud-cover percentages a catalog entry may carry *)
CloudValues == {5, 9, 10, 11}

----------------------------------------------------------------------------
(* Geometry: what shapely computes for the shapes of the model *)

Min(S) == CHOOSE x \in S : \A y \in S : x <= y
Max(S) == CHOOSE x \in S : \A y \in S : x >= y

Area(g) == Cardinality(g)
Union(g, h) == g \cup h
Difference(g, h) == g \ h

(* shape.bounds: the closed interval [minx, maxx] of the shape *)
Bounds(g) == <<Min(g), Max(g) + 1>>

Intervals == {lo..hi : lo \in Cells, hi \in Cells} \ {{}}

(* The serialized footprints (WKT strings) of the catalog.  An interval of *)
(* cells serializes as a POLYGON; the whole strip also as a MULTIPOLYGON   *)
(* of one part (same geometry, another string); separated runs of cells    *)
(* only as a MULTIPOLYGON of several parts.                                *)
PolygonWkt == {[type |-> "POLYGON", parts |-> <<I>>] : I \in Intervals}
MultiPolygonWkt ==
    {[type |-> "MULTIPOLYGON", parts |-> <<Cells>>]}
    \cup {[type |-> "MULTIPOLYGON", parts |-> <<I, J>>] :
            <<I, J>> \in {p \in Intervals \X Intervals : Max(p[1]) + 1 < Min(p[2])}}
Footprints == PolygonWkt \cup MultiPolygonWkt

(* a footprint of no area, "POLYGON EMPTY" *)
EmptyWkt == [type |-> "POLYGON", parts |-> <<{}>>]

(* swkt.loads: a Polygon object (its cells) or a MultiPolygon with .geoms *)
loads(wkt) ==
    IF wkt.type = "POLYGON"
    THEN [cls |-> "Polygon", geoms |-> <<>>, cells |-> wkt.parts[1]]
    ELSE [cls |-> "MultiPolygon", geoms |-> wkt.parts,
          cells |-> UNION {wkt.parts[k] : k \in 1..Len(wkt.parts)}]

(* the area a record's footprint covers *)
Geom(meta) == loads(meta.footprint).cells

(* do two bounds, as rtree compares them, intersect (touching counts) *)
BoundsIntersect(a, b) == a[1] <= b[2] /\ b[1] <= a[2]

(* the ids of a set in ascending order *)
Ascending(S) ==
    [k \in 1..Cardinality(S) |->
        CHOOSE x \in S : Cardinality({y \in S : y < x}) = k - 1]

Range(s) == {s[k] : k \in 1..Len(s)}

----------------------------------------------------------------------------
(* Catalog records: parse_entry's dictionaries, reduced to the fields the   *)
(* reduction reads.                                                         *)

Meta(u, f, c) == [uuid |-> u, footprint |-> f, cloudcoverpercentage |-> c]

(* ms is a list of at most MaxPool records over footprints F and cloud values *)
(* C, the record at position i carrying uuid i                               *)
IsPool(ms, F, C) ==
    \E n \in 0..MaxPool : \E e \in [1..n -> F \X C] :
        ms = [i \in 1..n |-> Meta(i, e[i][1], e[i][2])]

----------------------------------------------------------------------------
(* Policy A: copernicus_links.reduce_footprint_unique *)

(* sorted(metas, key=cloudcoverpercentage): Python's sort is stable, so a   *)
(* record goes behind every record whose key is not larger.                 *)
InsertUnstable(t, m) ==
    LET k == Cardinality({j \in 1..Len(t) :
                 t[j].cloudcoverpercentage < m.cloudcoverpercentage})
    IN  SubSeq(t, 1, k) \o <<m>> \o SubSeq(t, k + 1, Len(t))

Insert(t, m) ==
    LET k == Cardinality({j \in 1..Len(t) :
                 t[j].cloudcoverpercentage <= m.cloudcoverpercentage})
    IN  SubSeq(t, 1, k) \o <<m>> \o SubSeq(t, k + 1, Len(t))

Unsorted(ms) == ms

RECURSIVE sorted(_)
sorted(ms) ==
    IF ms = <<>> THEN <<>>
    ELSE Insert(sorted(SubSeq(ms, 1, Len(ms) - 1)), ms[Len(ms)])

(* `assert len(poly.geoms) == 1` holds for every record of the list *)
AssertStripped(ms) == TRUE
AssertFirstOnly(ms) ==
    ms # <<>> =>
        LET poly == loads(ms[1].footprint)
        IN  poly.cls = "MultiPolygon" => Len(poly.geoms) = 1

AssertHolds(ms) ==
    \A k \in 1..Len(ms) :
        LET poly == loads(ms[k].footprint)
        IN  poly.cls = "MultiPolygon" => Len(poly.geoms) = 1

(* the shapes list built by the parsing loop: a MultiPolygon contributes   *)
(* its parts (shapes.extend), a Polygon itself (shapes.append)             *)
RECURSIVE ParseShapes(_)
ParseShapes(ms) ==
    IF ms = <<>> THEN <<>>
    ELSE LET poly == loads(Head(ms).footprint)
         IN  (IF poly.cls = "MultiPolygon" THEN poly.geoms ELSE <<poly.cells>>)
             \o ParseShapes(Tail(ms))

(* `cloudcoverpercentage < 10`, the filter of both pipelines *)
CloudLimit == 10
PassesCloudInclusive(c) == c <= CloudLimit
PassesCloud(c) == c < CloudLimit

(* `if prev_size < union_area.area` *)
GrowsTooStrict(prev_size, new_size) == prev_size + 1 < new_size
Grows(prev_size, new_size) == prev_size < new_size

(* the list a call receives: the caller's, or the first call's result *)
InputA == IF runs = 0 THEN arg ELSE prev

A_Call ==
    /\ pc = "call"
    /\ metas' = sorted(InputA)
    /\ IF AssertHolds(metas')
       THEN /\ shapes' = ParseShapes(metas')
            /\ pc' = "select"
       ELSE /\ shapes' = <<>>
            /\ pc' = "AssertionError"
    /\ idx' = 1
    /\ selected' = <<>>
    /\ union_area' = <<>>
    /\ UNCHANGED <<arg, result, prev, runs, varsB, varsG, varsX>>

A_Select ==
    /\ pc = "select"
    /\ idx <= Len(shapes)
    /\ IF union_area = <<>>
       THEN /\ union_area' = <<shapes[idx]>>
            /\ selected' = Append(selected, idx)
       ELSE LET prev_size == Area(union_area[1])
                grown == Union(union_area[1], shapes[idx])
            IN  /\ union_area' = <<grown>>
                /\ selected' = IF Grows(prev_size, Area(grown))
                               THEN Append(selected, idx)
                               ELSE selected
    /\ idx' = idx + 1
    /\ UNCHANGED <<pc, arg, metas, shapes, result, prev, runs, varsB, varsG, varsX>>

A_Return ==
    /\ pc = "select"
    /\ idx > Len(shapes)
    /\ result' = [k \in 1..Len(selected) |-> metas[selected[k]]]
    /\ runs' = runs + 1
    /\ pc' = "done"
    /\ UNCHANGED <<arg, metas, shapes, idx, union_area, selected, prev, varsB, varsG, varsX>>

(* the reducer is run again on the list it returned *)
A_Again ==
    /\ pc = "done"
    /\ runs = 1
    /\ prev' = result
    /\ pc' = "call"
    /\ UNCHANGED <<arg, metas, shapes, idx, union_area, selected, result, runs>>
    /\ UNCHANGED <<varsB, varsG, varsX>>

InitA ==
    /\ IdleX
    /\ pc = "call"
    /\ IsPool(arg, Footprints \cup {EmptyWkt}, {c \in CloudValues : PassesCloud(c)})
    /\ metas = <<>>
    /\ shapes = <<>>
    /\ idx = 1
    /\ union_area = <<>>
    /\ selected = <<>>
    /\ result = <<>>
    /\ prev = <<>>
    /\ runs = 0
    /\ rtree = {}
    /\ uniques = <<>>
    /\ sel_index = 0
    /\ is_sel = <<>>
    /\ pool = <<>>
    /\ filtered = <<>>

NextA == A_Call \/ A_Select \/ A_Return \/ A_Again

SpecA == InitA /\ [][NextA]_vars

----------------------------------------------------------------------------
(* Policy B: fetch_images.find_uniques and reduce_footprint_unique *)

(* rtree.intersection(bounds): the ids whose stored bounds intersect.  The *)
(* library fixes no order; ascending ids are taken, and which ids          *)
(* find_uniques classifies unique does not depend on the order.            *)
intersection(rt, bounds) ==
    Ascending({e.id : e \in {x \in rt : BoundsIntersect(x.bounds, bounds)}})

(* `if remaining.area == 0` *)
AreaIsNegative(g) == Area(g) < 0
AreaIsPositive(g) == Area(g) # 0
AreaIsZero(g) == Area(g) = 0

(* the inner loop of find_uniques for candidate i: subtract the neighbours  *)
(* one by one, skip i itself, stop as not unique once nothing remains       *)
StaysUniqueOneByOne(remaining, intersects, i, shps) ==
    \A k \in 1..Len(intersects) :
        \/ intersects[k] = i
        \/ ~AreaIsZero(Difference(remaining, shps[intersects[k]]))

RECURSIVE StaysUnique(_, _, _, _)
StaysUnique(remaining, intersects, i, shps) ==
    IF intersects = <<>> THEN TRUE
    ELSE IF Head(intersects) = i
         THEN StaysUnique(remaining, Tail(intersects), i, shps)
         ELSE LET rest == Difference(remaining, shps[Head(intersects)])
              IN  IF AreaIsZero(rest) THEN FALSE
                  ELSE StaysUnique(rest, Tail(intersects), i, shps)

find_uniques(shps, ids, rt) ==
    SelectSeq(ids, LAMBDA i :
        StaysUnique(shps[i], intersection(rt, Bounds(shps[i])), i, shps))

(* sorted([(i, area) ...], key=area)[0][0]: the first id of least area *)
SmallestLast(shps, ids) ==
    CHOOSE k \in 1..Len(ids) :
        /\ \A j \in 1..Len(ids) : Area(shps[ids[k]]) <= Area(shps[ids[j]])
        /\ \A j \in (k + 1)..Len(ids) : Area(shps[ids[j]]) > Area(shps[ids[k]])

SmallestFirst(shps, ids) ==
    CHOOSE k \in 1..Len(ids) :
        /\ \A j \in 1..Len(ids) : Area(shps[ids[k]]) <= Area(shps[ids[j]])
        /\ \A j \in 1..(k - 1) : Area(shps[ids[j]]) > Area(shps[ids[k]])

(* selected.remove(sel_index) *)
RemoveNothing(ids, x) == ids
Remove(ids, x) == SelectSeq(ids, LAMBDA y : y # x)

(* [m for i, m in enumerate(filtered) if i in ids] (smallest_cover_set) *)
Kept(list, ids) ==
    LET keep == Ascending({k \in 1..Len(list) : k \in Range(ids)})
    IN  [k \in 1..Len(keep) |-> list[keep[k]]]

(* the shapes a call receives: the caller's, or those the first call kept *)
InputB == IF runs = 0 THEN arg ELSE Kept(arg, prev)

B_Call ==
    /\ pc = "call"
    /\ shapes' = InputB
    /\ rtree' = {[id |-> k, bounds |-> Bounds(shapes'[k])] : k \in 1..Len(shapes')}
    /\ selected' = [k \in 1..Len(shapes') |-> k]
    /\ uniques' = find_uniques(shapes', selected', rtree')
    /\ sel_index' = 0
    /\ is_sel' = <<>>
    /\ pc' = "loop"
    /\ UNCHANGED <<arg, result, prev, runs, varsA, varsG, varsX>>

(* `uniques += ...` *)
Overwrite(list, more) == more
Extend(list, more) == list \o more

(* the candidates of the working set not classified unique *)
NotUnique == SelectSeq(selected, LAMBDA k : k \notin Range(uniques))

(* one iteration of `while True` that removes a candidate.  The index is  *)
(* queried with shapes[i], i being the variable the index-building loop   *)
(* left behind: the last position of shapes.                              *)
B_Remove ==
    /\ pc = "loop"
    /\ NotUnique # <<>>
    /\ LET i == Len(shapes)
       IN  /\ sel_index' = NotUnique[SmallestFirst(shapes, NotUnique)]
           /\ selected' = Remove(selected, sel_index')
           /\ is_sel' = intersection(rtree, Bounds(shapes[i]))
           /\ uniques' = Extend(uniques, find_uniques(shapes, is_sel', rtree))
    /\ UNCHANGED <<pc, arg, shapes, result, prev, runs, rtree, varsA, varsG, varsX>>

(* `if len(is_areas) == 0: break` and `return uniques` *)
B_Return ==
    /\ pc = "loop"
    /\ NotUnique = <<>>
    /\ result' = uniques
    /\ runs' = runs + 1
    /\ pc' = "done"
    /\ UNCHANGED <<arg, shapes, selected, prev, varsA, varsB, varsG, varsX>>

(* the reducer is run again on the shapes it kept *)
B_Again ==
    /\ pc = "done"
    /\ runs = 1
    /\ prev' = result
    /\ pc' = "call"
    /\ UNCHANGED <<arg, shapes, selected, result, runs, varsA, varsB, varsG, varsX>>

(* the parsing loop of smallest_cover_set, which builds the footprints    *)
(* handed to reduce_footprint_unique                                      *)
B_Parse ==
    /\ pc = "parse"
    /\ IF AssertHolds(filtered)
       THEN /\ arg' = ParseShapes(filtered)
            /\ pc' = "call"
       ELSE /\ arg' = arg
            /\ pc' = "AssertionError"
    /\ UNCHANGED <<shapes, selected, result, prev, runs, varsA, varsB, varsG, varsX>>

(* the lists of at most MaxPool polygons *)
IsShapeList(ss) ==
    \E n \in 0..MaxPool : \E e \in [1..n -> Intervals] : ss = e

(* the lists grouping leaves: no footprint string twice.  Policy B reads  *)
(* no cloud cover, so one value stands for all.                           *)
IsGroupedPool(ms) ==
    /\ IsPool(ms, Footprints, {Min({c \in CloudValues : PassesCloud(c)})})
    /\ \A j, k \in 1..Len(ms) : ms[j].footprint = ms[k].footprint => j = k

(* reduce_footprint_unique is entered with any list of polygons, or from  *)
(* smallest_cover_set with the footprints of a grouped list               *)
InitB ==
    /\ IdleX
    /\ \/ pc = "call" /\ IsShapeList(arg) /\ filtered = <<>>
       \/ pc = "parse" /\ IsGroupedPool(filtered) /\ arg = <<>>
    /\ metas = <<>>
    /\ shapes = <<>>
    /\ idx = 1
    /\ union_area = <<>>
    /\ selected = <<>>
    /\ result = <<>>
    /\ prev = <<>>
    /\ runs = 0
    /\ rtree = {}
    /\ uniques = <<>>
    /\ sel_index = 0
    /\ is_sel = <<>>
    /\ pool = <<>>

NextB == B_Parse \/ B_Call \/ B_Remove \/ B_Return \/ B_Again

SpecB == InitB /\ [][NextB]_vars

(* the program is sequential and keeps running until it returns or raises *)
SpecBFair == SpecB /\ WF_vars(NextB)

----------------------------------------------------------------------------
(* The filter and group-by-footprint steps of filter_cover_set             *)
(* (copernicus_links.py) and smallest_cover_set (fetch_images.py), which   *)
(* are the same code.                                                      *)

(* [m for m in metas if m["cloudcoverpercentage"] < 10] *)
FilterCloud(ms) == SelectSeq(ms, LAMBDA m : PassesCloud(m.cloudcoverpercentage))

(* the keys of same_footprint, a dict: in order of first insertion *)
RECURSIVE Keys(_)
Keys(ms) ==
    IF ms = <<>> THEN <<>>
    ELSE LET front == Keys(SubSeq(ms, 1, Len(ms) - 1))
             foot == ms[Len(ms)].footprint
         IN  IF foot \in Range(front) THEN front ELSE Append(front, foot)

(* same_footprint[foot]: the records of one footprint string, in order *)
Group(ms, foot) == SelectSeq(ms, LAMBDA m : m.footprint = foot)

(* min(v, key=cloudcoverpercentage): a later record replaces the best so   *)
(* far only if its key is strictly smaller                                 *)
Worse(c, best) == c > best
BetterOrEqual(c, best) == c <= best
Better(c, best) == c < best

RECURSIVE min(_)
min(v) ==
    IF Len(v) = 1 THEN v[1]
    ELSE LET best == min(SubSeq(v, 1, Len(v) - 1))
             m == v[Len(v)]
         IN  IF Better(m.cloudcoverpercentage, best.cloudcoverpercentage)
             THEN m ELSE best

(* [min(v, ...) for v in same_footprint.values()] *)
Grouped(ms) == [k \in 1..Len(Keys(ms)) |-> min(Group(ms, Keys(ms)[k]))]

G_Filter ==
    /\ pc = "filter"
    /\ filtered' = FilterCloud(pool)
    /\ pc' = "group"
    /\ UNCHANGED <<arg, shapes, selected, result, prev, runs, pool, varsA, varsB, varsX>>

G_Group ==
    /\ pc = "group"
    /\ filtered' = Grouped(filtered)
    /\ pc' = "grouped"
    /\ UNCHANGED <<arg, shapes, selected, result, prev, runs, pool, varsA, varsB, varsX>>

(* the footprint strings of the catalog that cover the whole strip: one   *)
(* geometry under two strings                                              *)
StripWkt == {w \in Footprints : Len(w.parts) = 1 /\ w.parts[1] = Cells}

(* ms is a search result of at most MaxPool records with distinct uuids, *)
(* in whatever order the catalog returned them                           *)
IsCatalog(ms, F, C) ==
    \E n \in 0..MaxPool : \E u \in [1..n -> 1..n] : \E e \in [1..n -> F \X C] :
        /\ \A j, k \in 1..n : u[j] = u[k] => j = k
        /\ ms = [i \in 1..n |-> Meta(u[i], e[i][1], e[i][2])]

InitG ==
    /\ IdleX
    /\ pc = "filter"
    /\ IsCatalog(pool, StripWkt, CloudValues)
    /\ filtered = <<>>
    /\ arg = <<>>
    /\ metas = <<>>
    /\ shapes = <<>>
    /\ idx = 1
    /\ union_area = <<>>
    /\ selected = <<>>
    /\ result = <<>>
    /\ prev = <<>>
    /\ runs = 0
    /\ rtree = {}
    /\ uniques = <<>>
    /\ sel_index = 0
    /\ is_sel = <<>>

NextG == G_Filter \/ G_Group

SpecG == InitG /\ [][NextG]_vars

----------------------------------------------------------------------------
(* Pipeline: filter_cover_set from the parsed search result to its return: *)
(* filter, group, Policy A, statistics.                                    *)

(* `filtered = reduce_footprint_unique(filtered)`: the call *)
P_Reduce ==
    /\ pc = "grouped"
    /\ arg' = filtered
    /\ pc' = "call"
    /\ UNCHANGED <<shapes, selected, result, prev, runs, varsA, varsB, varsG, varsX>>

(* sum(m["cloudcoverpercentage"] for m in filtered) *)
RECURSIVE SumCloud(_)
SumCloud(ms) ==
    IF ms = <<>> THEN 0 ELSE Head(ms).cloudcoverpercentage + SumCloud(Tail(ms))

(* the quotient sum / len, kept as the fraction <<numerator, denominator>> *)
avgcover(ms) == <<SumCloud(ms), Len(ms)>>

(* max(m["cloudcoverpercentage"] for m in filtered) *)
maxcover(ms) == Max({ms[k].cloudcoverpercentage : k \in 1..Len(ms)})

(* the assignment of the reducer's result and the statistics after it:    *)
(* the average divides by len(filtered)                                   *)
P_Stats ==
    /\ pc = "done"
    /\ filtered' = result
    /\ IF Len(filtered') = 0
       THEN /\ pc' = "ZeroDivisionError"
            /\ stats' = stats
       ELSE /\ pc' = "returned"
            /\ stats' = <<[avgcover |-> avgcover(filtered'),
                           maxcover |-> maxcover(filtered')]>>
    /\ UNCHANGED <<arg, shapes, selected, result, prev, runs, pool, varsA, varsB, varsM, varsS, varsD>>

NextP == G_Filter \/ G_Group \/ P_Reduce \/ A_Call \/ A_Select \/ A_Return \/ P_Stats

SpecP == InitG /\ [][NextP]_vars

----------------------------------------------------------------------------
(* Properties of Policy A (SpecA) *)

(* the area covered by a list of records *)
Covered(ms) == UNION {Geom(ms[k]) : k \in 1..Len(ms)}

(* the list the call that just returned was given *)
LastInputA == IF runs = 1 THEN arg ELSE prev

(* C1: coverage preservation, Policy A.  When reduce_footprint_unique     *)
(* returns, the records it returns cover exactly the area that all the    *)
(* records it was given cover.                                            *)
C1_CoveragePreservedA ==
    pc = "done" => Covered(result) = Covered(LastInputA)

(* a first call that discarded a record and kept at least two *)
C1_Witness ==
    /\ pc = "done"
    /\ runs = 1
    /\ Len(result) >= 2
    /\ Len(result) < Len(arg)

(* C3: no redundant member, Policy A.  Removing any single returned       *)
(* footprint strictly reduces the area the returned list covers.          *)
C3_NoRedundantA ==
    pc = "done" =>
        \A k \in 1..Len(result) :
            Area(UNION {Geom(result[j]) : j \in (1..Len(result)) \ {k}})
                < Area(Covered(result))

(* C5: containment under Policy A.  Given two footprints of which one     *)
(* strictly contains the other, only the containing one is returned,      *)
(* whichever of the two has the lower cloud cover.                        *)
C5_ContainmentA ==
    (pc = "done" /\ runs = 1 /\ Len(arg) = 2) =>
        \A a, b \in 1..2 :
            (Geom(arg[b]) \subseteq Geom(arg[a]) /\ Geom(arg[b]) # Geom(arg[a]))
                => result = <<arg[a]>>

(* C9: idempotence, Policy A.  Run on the list it returned, the reducer   *)
(* returns exactly that list again.                                       *)
C9_IdempotentA ==
    (pc = "done" /\ runs = 2) => result = prev

(* a second call on a result of at least two records, the first call     *)
(* having discarded one                                                   *)
C9_Witness ==
    /\ pc = "done"
    /\ runs = 2
    /\ Len(prev) >= 2
    /\ Len(prev) < Len(arg)

----------------------------------------------------------------------------
(* Properties of Policy B (SpecB) *)

(* the area covered by the shapes with the given ids *)
CoveredBy(ids) == UNION {shapes[k] : k \in ids}

(* C2: coverage preservation, Policy B.  When reduce_footprint_unique     *)
(* returns, the shapes whose ids it returns cover the area all its input  *)
(* shapes cover.                                                          *)
C2_CoveragePreservedB ==
    pc = "done" => CoveredBy(Range(result)) = CoveredBy(1..Len(shapes))

(* C4: no redundant member, Policy B.  Every returned shape covers a cell *)
(* that no other returned shape covers.                                   *)
C4_NoRedundantB ==
    pc = "done" =>
        \A k \in Range(result) :
            Difference(shapes[k], CoveredBy(Range(result) \ {k})) # {}

(* a call that removed a shape and returned two overlapping ones *)
C4_Witness ==
    /\ pc = "done"
    /\ runs = 1
    /\ Len(selected) < Len(shapes)
    /\ \E j, k \in Range(result) : j # k /\ shapes[j] \cap shapes[k] # {}

(* C10: idempotence, Policy B.  Run on exactly the shapes a first call    *)
(* kept, the reducer keeps every one of them.                             *)
C10_IdempotentB ==
    (pc = "done" /\ runs = 2) => Range(result) = 1..Len(shapes)

(* a second call on at least two kept shapes, the first call having       *)
(* removed one                                                            *)
C10_Witness ==
    /\ pc = "done"
    /\ runs = 2
    /\ Len(shapes) >= 2
    /\ Len(shapes) < Len(arg)

----------------------------------------------------------------------------
(* Properties of the filter and grouping steps (SpecG) *)

(* the records of a list with the given footprint string *)
SameFoot(ms, foot) == {k \in 1..Len(ms) : ms[k].footprint = foot}

(* the least cloud cover among the records at the given positions *)
LeastCloud(ms, ks) ==
    CHOOSE c \in {ms[k].cloudcoverpercentage : k \in ks} :
        \A k \in ks : c <= ms[k].cloudcoverpercentage

(* the positions of a group that carry the group's least cloud cover *)
Ties(ms, foot) ==
    {k \in SameFoot(ms, foot) :
        ms[k].cloudcoverpercentage = LeastCloud(ms, SameFoot(ms, foot))}

(* the list the grouping step was given: the filter step's output *)
GroupInput == FilterCloud(pool)

(* C6: grouping removes exact duplicates.  After the group-by-footprint   *)
(* step no two records share a footprint string, every footprint string   *)
(* of the filtered pool has a survivor, and each survivor is a record of  *)
(* its group with the group's least cloud cover.                          *)
C6_GroupingDeduplicates ==
    pc = "grouped" =>
        /\ \A j, k \in 1..Len(filtered) :
               filtered[j].footprint = filtered[k].footprint => j = k
        /\ {filtered[k].footprint : k \in 1..Len(filtered)}
               = {GroupInput[k].footprint : k \in 1..Len(GroupInput)}
        /\ \A k \in 1..Len(filtered) :
               \E j \in Ties(GroupInput, filtered[k].footprint) :
                   filtered[k] = GroupInput[j]

(* a grouping that merged a group of records with different cloud cover *)
C6_Witness ==
    /\ pc = "grouped"
    /\ Len(filtered) < Len(GroupInput)
    /\ \E j, k \in 1..Len(GroupInput) :
           /\ GroupInput[j].footprint = GroupInput[k].footprint
           /\ GroupInput[j].cloudcoverpercentage # GroupInput[k].cloudcoverpercentage

(* C7 as stated: among the records of a group that share the least cloud  *)
(* cover, the survivor is the one with the smallest uuid.                 *)
C7_SmallestIdSurvives ==
    pc = "grouped" =>
        \A k \in 1..Len(filtered) :
            \A j \in Ties(GroupInput, filtered[k].footprint) :
                filtered[k].uuid <= GroupInput[j].uuid

(* C7, amended: among the records of a group that share the least cloud   *)
(* cover, the survivor is the one that comes first in the input list.     *)
C7_FirstInInputSurvives ==
    pc = "grouped" =>
        \A k \in 1..Len(filtered) :
            filtered[k] = GroupInput[Min(Ties(GroupInput, filtered[k].footprint))]

(* a group in which two records tie for the least cloud cover and the     *)
(* first of them does not have the smallest uuid                          *)
C7_Witness ==
    /\ pc = "grouped"
    /\ \E foot \in Range(Keys(GroupInput)) :
           LET ties == Ties(GroupInput, foot)
           IN  /\ Cardinality(ties) >= 2
               /\ \E j \in ties : GroupInput[j].uuid < GroupInput[Min(ties)].uuid

(* C8 as stated: the filter passes on exactly the records whose cloud     *)
(* cover does not exceed the threshold, one equal to it included.         *)
C8_FilterKeepsUpToThreshold ==
    pc = "group" =>
        \A k \in 1..Len(pool) :
            pool[k] \in Range(filtered) <=> pool[k].cloudcoverpercentage <= 10

(* C8, amended: the filter passes on, in their order, exactly the records *)
(* whose cloud cover is strictly below the threshold; a record exactly at *)
(* the threshold is dropped.                                              *)
C8_FilterKeepsBelowThreshold ==
    pc = "group" =>
        /\ \A k \in 1..Len(pool) :
               pool[k] \in Range(filtered) <=> pool[k].cloudcoverpercentage < 10
        /\ Len(filtered) = Cardinality({k \in 1..Len(pool) :
                                          pool[k].cloudcoverpercentage < 10})
        /\ \A j, k \in 1..Len(filtered) :
               j < k => \E a, b \in 1..Len(pool) :
                            a < b /\ pool[a] = filtered[j] /\ pool[b] = filtered[k]

(* a filter step given a record exactly at the threshold, one above it    *)
(* and one below it                                                       *)
C8_Witness ==
    /\ pc = "group"
    /\ \E a, b \in 1..Len(pool) :
           /\ pool[a].cloudcoverpercentage = 10
           /\ pool[b].cloudcoverpercentage > 10
    /\ filtered # <<>>

----------------------------------------------------------------------------
(* Properties of the parsing loops (SpecA, SpecB) *)

(* the record's footprint loads as a MultiPolygon of several parts *)
IsMultiPart(meta) ==
    LET poly == loads(meta.footprint)
    IN  poly.cls = "MultiPolygon" /\ Len(poly.geoms) > 1

HasMultiPart(ms) == \E k \in 1..Len(ms) : IsMultiPart(ms[k])

(* C11: multi-part geometry is surfaced as an error.  A call given a      *)
(* footprint of several parts stops in the error and returns nothing; and *)
(* whenever the selection runs or has returned, shape k is the whole      *)
(* geometry of record k (no part dropped, no index shifted).              *)
C11_MultiPartIsError ==
    /\ (HasMultiPart(arg) /\ pc # "call") =>
           (pc = "AssertionError" /\ result = <<>> /\ runs = 0)
    /\ pc \in {"select", "done"} =>
           /\ Len(shapes) = Len(metas)
           /\ \A k \in 1..Len(shapes) : shapes[k] = Geom(metas[k])

(* a call that stopped in the error on a list that also holds a           *)
(* single-part footprint                                                  *)
C11_Witness ==
    /\ pc = "AssertionError"
    /\ HasMultiPart(arg)
    /\ \E k \in 1..Len(arg) : ~IsMultiPart(arg[k])

(* C12 as stated: errors are per-record.  The run is never stopped by the *)
(* error while the list holds a record that could have been reduced.      *)
C12_ErrorsPerRecord ==
    pc = "AssertionError" =>
        \A k \in 1..Len(filtered) : IsMultiPart(filtered[k])

(* C12, amended: the error aborts the whole run.  Once the parsing loop   *)
(* has met a multi-part footprint nothing is handed to the reducer and    *)
(* nothing is returned, whatever the other records are.                   *)
C12_ErrorAbortsRun ==
    (HasMultiPart(filtered) /\ pc # "parse") =>
        /\ pc = "AssertionError"
        /\ arg = <<>>
        /\ shapes = <<>>
        /\ result = <<>>
        /\ runs = 0

(* a run stopped by the error with a single-part record in its list *)
C12_Witness ==
    /\ pc = "AssertionError"
    /\ \E k \in 1..Len(filtered) : ~IsMultiPart(filtered[k])

----------------------------------------------------------------------------
(* Further properties of Policy A (SpecA) *)

(* the position of a record in a list of distinct records *)
PositionIn(ms, m) == CHOOSE k \in 1..Len(ms) : ms[k] = m

(* C13: reduction only decides membership.  The returned list consists of *)
(* records of the input list, unmodified and each at most once, in        *)
(* ascending cloud cover (input order among equals); the record returned  *)
(* at a position is the one whose shape was evaluated for it; and the     *)
(* caller's list is never changed.                                        *)
C13_OnlyMembership ==
    /\ [](pc = "done" =>
            /\ \A k \in 1..Len(result) : result[k] \in Range(LastInputA)
            /\ \A j, k \in 1..Len(result) : result[j] = result[k] => j = k
            /\ \A j, k \in 1..Len(result) :
                   j < k =>
                       \/ result[j].cloudcoverpercentage < result[k].cloudcoverpercentage
                       \/ /\ result[j].cloudcoverpercentage = result[k].cloudcoverpercentage
                          /\ PositionIn(LastInputA, result[j]) < PositionIn(LastInputA, result[k])
            /\ Len(result) = Len(selected)
            /\ \A k \in 1..Len(result) : Geom(result[k]) = shapes[selected[k]])
    /\ [][arg' = arg]_vars

(* a call on a list that was not in cloud-cover order, which discarded a  *)
(* record and returned at least two                                       *)
C13_Witness ==
    /\ pc = "done"
    /\ runs = 1
    /\ Len(result) >= 2
    /\ Len(result) < Len(arg)
    /\ \E j, k \in 1..Len(arg) :
           j < k /\ arg[j].cloudcoverpercentage > arg[k].cloudcoverpercentage

(* C14: the keep rule of Policy A.  Of the candidates processed so far,   *)
(* in ascending cloud cover and starting from an empty union, exactly     *)
(* those are kept whose shape strictly enlarged the union of the shapes   *)
(* before it, the first candidate included.                               *)
C14_KeepRuleA ==
    pc \in {"select", "done"} =>
        /\ \A j, k \in 1..Len(metas) :
               j < k => metas[j].cloudcoverpercentage <= metas[k].cloudcoverpercentage
        /\ \A k \in 1..(idx - 1) :
               k \in Range(selected) <=>
                   Area(UNION {shapes[j] : j \in 1..(k - 1)})
                       < Area(UNION {shapes[j] : j \in 1..k})

----------------------------------------------------------------------------
(* Further properties of Policy B (SpecB, SpecBFair) *)

(* do the bounding boxes of shapes j and k intersect *)
AreNeighbours(j, k) == BoundsIntersect(Bounds(shapes[j]), Bounds(shapes[k]))

(* C15: the uniqueness evaluator.  Candidate i is classified unique       *)
(* exactly if a positive area of it is left once every other candidate    *)
(* whose bounding box intersects its own has been subtracted.             *)
C15_UniquenessEvaluator ==
    pc \in {"loop", "done"} =>
        \A i \in 1..Len(shapes) :
            i \in Range(uniques) <=>
                Area(shapes[i] \ UNION {shapes[j] :
                        j \in {n \in 1..Len(shapes) : n # i /\ AreNeighbours(n, i)}}) > 0

(* a pool with a unique candidate and one that two neighbours cover       *)
(* together though neither covers it alone                                *)
C15_Witness ==
    /\ pc = "loop"
    /\ uniques # <<>>
    /\ \E i \in 1..Len(shapes) :
           /\ i \notin Range(uniques)
           /\ \A j \in 1..Len(shapes) : j # i => ~(shapes[i] \subseteq shapes[j])

(* C16: removal reaches the index.  The spatial index holds exactly the   *)
(* candidates of the working set, so a removed candidate no longer counts *)
(* in any later uniqueness evaluation.                                    *)
C16_RemovalReachesIndex ==
    pc \in {"loop", "done"} => {e.id : e \in rtree} = Range(selected)

(* C17: the re-evaluation set.  After removing candidate sel_index, the   *)
(* candidates of the working set that are re-evaluated are exactly those  *)
(* whose bounding box intersects that of sel_index.                       *)
C17_ReevaluatesNeighboursOfRemoved ==
    (pc = "loop" /\ sel_index # 0) =>
        Range(is_sel) \cap Range(selected)
            = {j \in Range(selected) : AreNeighbours(j, sel_index)}

(* C18: termination of Policy B.  The loop always reaches the return;     *)
(* every iteration either removes exactly one candidate that is in the    *)
(* working set and not classified unique, or, when there is none, leaves  *)
(* the loop with the working set as it is.                                *)
C18_TerminationB ==
    /\ (pc = "loop") ~> (pc = "done")
    /\ [][pc = "loop" =>
            IF NotUnique = <<>>
            THEN pc' = "done" /\ selected' = selected
            ELSE /\ pc' = "loop"
                 /\ Len(selected') = Len(selected) - 1
                 /\ \E x \in Range(NotUnique) :
                        Range(selected') = Range(selected) \ {x}]_vars

(* a call that returned after two removals *)
C18_Witness ==
    /\ pc = "done"
    /\ runs = 1
    /\ Len(selected) + 2 <= Len(shapes)

(* C19: removal order.  The candidate an iteration removes is, among the  *)
(* candidates of the working set not classified unique, one of least area *)
(* and of these the one with the lowest id.                               *)
C19_RemovalOrder ==
    [][(pc = "loop" /\ pc' = "loop") =>
          /\ sel_index' \in Range(NotUnique)
          /\ Range(selected') = Range(selected) \ {sel_index'}
          /\ \A j \in Range(NotUnique) :
                 \/ Area(shapes[sel_index']) < Area(shapes[j])
                 \/ /\ Area(shapes[sel_index']) = Area(shapes[j])
                    /\ sel_index' <= j]_vars

(* a removal that had to choose between a candidate of the same area with *)
(* a higher id and a larger candidate                                     *)
C19_Witness ==
    /\ pc = "loop"
    /\ sel_index # 0
    /\ \E j, k \in Range(selected) \ Range(uniques) :
           /\ Area(shapes[j]) = Area(shapes[sel_index])
           /\ Area(shapes[k]) > Area(shapes[sel_index])

(* C20: uniques are kept permanently.  During the loop the set of ids     *)
(* classified unique only grows and all of it is returned; and every id   *)
(* returned is still in the working set.                                  *)
C20_UniquesKept ==
    /\ [](pc = "done" => Range(result) \subseteq Range(selected))
    /\ [][pc = "loop" =>
            /\ Range(uniques) \subseteq Range(uniques')
            /\ pc' = "done" => Range(uniques) \subseteq Range(result')]_vars

(* a call that classified a candidate unique, removed another and         *)
(* returned                                                               *)
C20_Witness ==
    /\ pc = "done"
    /\ runs = 1
    /\ result # <<>>
    /\ Len(selected) < Len(shapes)

----------------------------------------------------------------------------
(* merge_metas: the lists of main merged on uuid *)

MaxMerge == 2

(* the versions two searches may hold of one product *)
MergeClouds == {5, 9}

(* ms is a list of at most MaxMerge records; uuids may repeat *)
IsMetaList(ms) ==
    \E n \in 0..MaxMerge :
        \E e \in [1..n -> (1..MaxMerge) \X MergeClouds] :
            ms = [i \in 1..n |->
                    Meta(e[i][1], [type |-> "POLYGON", parts |-> <<Cells>>], e[i][2])]

(* [m["uuid"] for m in metas] *)
Uuids(ms) == [k \in 1..Len(ms) |-> ms[k].uuid]

(* `metas = meta_a.copy()` and the list of its uuids *)
M_Call ==
    /\ pc = "merge"
    /\ merged' = meta_a
    /\ found_uuids' = Uuids(meta_a)
    /\ b_idx' = 1
    /\ pc' = "merge_loop"
    /\ UNCHANGED <<arg, shapes, selected, result, prev, runs, varsA, varsB, varsG>>
    /\ UNCHANGED <<stats, meta_a, meta_b, varsS, varsD>>

(* found_uuids.append(uuid) *)
Forget(found, uuid) == found
Remember(found, uuid) == Append(found, uuid)

(* one iteration of `for meta in meta_b` *)
M_Step ==
    /\ pc = "merge_loop"
    /\ b_idx <= Len(meta_b)
    /\ LET meta == meta_b[b_idx]
           uuid == meta.uuid
       IN  IF uuid \notin Range(found_uuids)
           THEN /\ merged' = Append(merged, meta)
                /\ found_uuids' = Remember(found_uuids, uuid)
           ELSE UNCHANGED <<merged, found_uuids>>
    /\ b_idx' = b_idx + 1
    /\ UNCHANGED <<pc, arg, shapes, selected, result, prev, runs, varsA, varsB, varsG>>
    /\ UNCHANGED <<stats, meta_a, meta_b, varsS, varsD>>

(* return metas *)
M_Return ==
    /\ pc = "merge_loop"
    /\ b_idx > Len(meta_b)
    /\ result' = merged
    /\ pc' = "merged"
    /\ UNCHANGED <<arg, shapes, selected, prev, runs, varsA, varsB, varsG, varsX>>

InitM ==
    /\ pc = "merge"
    /\ IsMetaList(meta_a)
    /\ IsMetaList(meta_b)
    /\ merged = <<>>
    /\ found_uuids = <<>>
    /\ b_idx = 1
    /\ stats = <<>>
    /\ IdleS
    /\ IdleD
    /\ arg = <<>>
    /\ metas = <<>>
    /\ shapes = <<>>
    /\ idx = 1
    /\ union_area = <<>>
    /\ selected = <<>>
    /\ result = <<>>
    /\ prev = <<>>
    /\ runs = 0
    /\ rtree = {}
    /\ uniques = <<>>
    /\ sel_index = 0
    /\ is_sel = <<>>
    /\ pool = <<>>
    /\ filtered = <<>>

NextM == M_Call \/ M_Step \/ M_Return

SpecM == InitM /\ [][NextM]_vars

----------------------------------------------------------------------------
(* OpenSearch.search_terms: paged retrieval from the catalog server *)

MaxTotal == 3
MaxRows == 2

(* What the server may answer to the request with start s: a status other *)
(* than 200, or a page with some total_results and some entries.  The k-th *)
(* entry of the page answering start s is written <<s, k>>.               *)
Pages(s) ==
    {[status |-> 200, total_results |-> t,
      entries |-> [k \in 1..n |-> <<s, k>>]] : t \in 0..MaxTotal, n \in 0..MaxRows}
    \cup {[status |-> 500, total_results |-> 0, entries |-> <<>>]}

(* search_raw: `if resp.status_code != 200: raise RuntimeError(resp)` *)
Raises(resp) == resp.status # 200

(* the first request, `self.search(query)` with the default start=0 *)
S_First ==
    /\ pc = "search"
    /\ start' = 0
    /\ \E resp \in Pages(start') :
          IF Raises(resp)
          THEN /\ pc' = "RuntimeError"
               /\ UNCHANGED <<entries, max_index, page>>
          ELSE /\ page' = <<resp>>
               /\ entries' = entries \o page'[1].entries
               /\ max_index' = page'[1].total_results
               /\ pc' = "page_loop"
    /\ UNCHANGED <<arg, shapes, selected, result, prev, runs, varsA, varsB, varsG>>
    /\ UNCHANGED <<stats, varsM, varsD>>

(* the start of a follow-up request: start=len(entries) *)
StartOf(es) == Len(es)

(* one iteration of `while len(entries) < max_index` *)
S_Page ==
    /\ pc = "page_loop"
    /\ Len(entries) < max_index
    /\ start' = StartOf(entries)
    /\ \E resp \in Pages(start') :
          IF Raises(resp)
          THEN /\ pc' = "RuntimeError"
               /\ UNCHANGED <<entries, page>>
          ELSE /\ page' = <<resp>>
               /\ entries' = entries \o page'[1].entries
               /\ pc' = pc
    /\ UNCHANGED <<arg, shapes, selected, result, prev, runs, varsA, varsB, varsG>>
    /\ UNCHANGED <<stats, varsM, varsD, max_index>>

(* return entries *)
S_Return ==
    /\ pc = "page_loop"
    /\ Len(entries) >= max_index
    /\ result' = entries
    /\ pc' = "search_done"
    /\ UNCHANGED <<arg, shapes, selected, prev, runs, varsA, varsB, varsG, varsX>>

InitS ==
    /\ pc = "search"
    /\ IdleX
    /\ arg = <<>>
    /\ metas = <<>>
    /\ shapes = <<>>
    /\ idx = 1
    /\ union_area = <<>>
    /\ selected = <<>>
    /\ result = <<>>
    /\ prev = <<>>
    /\ runs = 0
    /\ rtree = {}
    /\ uniques = <<>>
    /\ sel_index = 0
    /\ is_sel = <<>>
    /\ pool = <<>>
    /\ filtered = <<>>

NextS == S_First \/ S_Page \/ S_Return

SpecS == InitS /\ [][NextS]_vars

(* the client keeps running: a request that can be made is made *)
SpecSFair == SpecS /\ WF_vars(NextS)

----------------------------------------------------------------------------
(* dataset_checker: Dataset.from_dir / Tile.from_path and Dataset.filter  *)
(* with the remove_empty argument.  A dictionary of patch metadata is     *)
(* reduced to its "date" entry: <<>> when the key is missing, <<d>> when  *)
(* it holds d.                                                            *)

MaxTiles == 3
MaxPatches == 2

DateStrings == {"2018-07-01"}

(* datetime.datetime.fromisoformat *)
fromisoformat(str) == [datetime |-> str]

(* the contents json.load may return for a metadata file *)
PatchMetas == {[date |-> <<>>]} \cup {[date |-> <<d>>] : d \in DateStrings}

IsDirectory(fs) ==
    \E n \in 0..MaxTiles :
        \E e \in [1..n -> UNION {[1..k -> PatchMetas] : k \in 0..MaxPatches}] : fs = e

(* Patch(m, path): reads meta["date"] and converts a string *)
Patch(m) == [meta |-> [date |-> <<fromisoformat(m.date[1])>>]]

(* Patch.__init__ raises KeyError for a dictionary without "date" *)
PatchRaises(patch_metas) ==
    /\ patch_metas # <<>>
    /\ patch_metas[1].date # <<>>
    /\ \E k \in 1..Len(patch_metas) : patch_metas[k].date = <<>>

(* Tile.from_path *)
from_path(patch_metas) ==
    IF patch_metas # <<>>
    THEN LET meta == patch_metas[1]
         IN  IF meta.date # <<>>
             THEN [meta |-> [date |-> <<fromisoformat(meta.date[1])>>],
                   patches |-> [k \in 1..Len(patch_metas) |-> Patch(patch_metas[k])]]
             ELSE [meta |-> meta, patches |-> <<>>]
    ELSE [meta |-> [date |-> <<>>], patches |-> <<>>]

(* Dataset.from_dir *)
D_Load ==
    /\ pc = "load"
    /\ IF \E k \in 1..Len(files) : PatchRaises(files[k])
       THEN /\ pc' = "KeyError"
            /\ UNCHANGED <<tiles, filterargs>>
       ELSE /\ tiles' = [k \in 1..Len(files) |-> from_path(files[k])]
            /\ filterargs' = <<>>
            /\ pc' = "loaded"
    /\ UNCHANGED <<arg, shapes, selected, result, prev, runs, varsA, varsB, varsG>>
    /\ UNCHANGED <<stats, varsM, varsS, files, low_tiles, low_filterargs>>

(* the test of remove_empty on one tile,                                  *)
(* `len(t) > 0 or t.date is None or not t.label`: Tile has no attribute   *)
(* label, so the third operand raises when it is reached                  *)
RemoveEmptyTest(t) ==
    IF Len(t.patches) > 0 THEN "True"
    ELSE IF t.meta.date = <<>> THEN "True"
    ELSE "AttributeError"

(* Dataset.filter(remove_empty=b), the other arguments not given *)
D_Filter ==
    /\ pc = "loaded"
    /\ \E remove_empty \in BOOLEAN :
          LET filterarg == [remove_empty |-> remove_empty]
          IN  IF remove_empty /\ \E k \in 1..Len(tiles) :
                                    RemoveEmptyTest(tiles[k]) = "AttributeError"
              THEN /\ pc' = "AttributeError"
                   /\ UNCHANGED <<low_tiles, low_filterargs>>
              ELSE /\ low_tiles' =
                        IF remove_empty
                        THEN SelectSeq(tiles, LAMBDA t : RemoveEmptyTest(t) = "True")
                        ELSE tiles
                   /\ low_filterargs' = filterargs \o <<filterarg>>
                   /\ pc' = "filtered"
    /\ UNCHANGED <<arg, shapes, selected, result, prev, runs, varsA, varsB, varsG>>
    /\ UNCHANGED <<stats, varsM, varsS, files, tiles, filterargs>>

InitD ==
    /\ pc = "load"
    /\ IsDirectory(files)
    /\ tiles = <<>>
    /\ filterargs = <<>>
    /\ low_tiles = <<>>
    /\ low_filterargs = <<>>
    /\ stats = <<>>
    /\ IdleM
    /\ IdleS
    /\ arg = <<>>
    /\ metas = <<>>
    /\ shapes = <<>>
    /\ idx = 1
    /\ union_area = <<>>
    /\ selected = <<>>
    /\ result = <<>>
    /\ prev = <<>>
    /\ runs = 0
    /\ rtree = {}
    /\ uniques = <<>>
    /\ sel_index = 0
    /\ is_sel = <<>>
    /\ pool = <<>>
    /\ filtered = <<>>

NextD == D_Load \/ D_Filter

SpecD == InitD /\ [][NextD]_vars

----------------------------------------------------------------------------
(* Properties of the pipeline (SpecP) *)

(* C21: the empty pool.  When no record of the search result passes the   *)
(* cloud-cover filter, filter_cover_set raises no error, and what it       *)
(* returns is the empty list.                                              *)
C21_EmptyPoolCompletes ==
    FilterCloud(pool) = <<>> =>
        /\ pc # "ZeroDivisionError"
        /\ pc = "returned" => filtered = <<>>

----------------------------------------------------------------------------
(* Properties of merge_metas (SpecM) *)

(* the positions of b whose uuid occurs neither in a nor earlier in b *)
NewIn(a, b) ==
    {k \in 1..Len(b) :
        /\ \A j \in 1..Len(a) : a[j].uuid # b[k].uuid
        /\ \A j \in 1..(k - 1) : b[j].uuid # b[k].uuid}

DistinctUuids(ms) == \A j, k \in 1..Len(ms) : ms[j].uuid = ms[k].uuid => j = k

(* C22: merge_metas(a, b) returns the records of a in order followed by   *)
(* exactly the records of b whose uuid occurs neither in a nor earlier in *)
(* b; every uuid of a or b is in the result; the result has distinct      *)
(* uuids whenever a has; and a and b are never modified.                  *)
C22_MergeOnUuid ==
    /\ [](pc = "merged" =>
            /\ result = meta_a \o
                   [i \in 1..Cardinality(NewIn(meta_a, meta_b)) |->
                       meta_b[Ascending(NewIn(meta_a, meta_b))[i]]]
            /\ Range(Uuids(meta_a)) \cup Range(Uuids(meta_b))
                   = Range(Uuids(result))
            /\ DistinctUuids(meta_a) => DistinctUuids(result))
    /\ [][meta_a' = meta_a /\ meta_b' = meta_b]_vars

(* a merge that appended one record of b and skipped another *)
C22_Witness ==
    /\ pc = "merged"
    /\ meta_a # <<>>
    /\ Len(result) > Len(meta_a)
    /\ Len(result) < Len(meta_a) + Len(meta_b)

----------------------------------------------------------------------------
(* Properties of search_terms (SpecS, SpecSFair) *)

(* C23: paged retrieval.  Every follow-up page is requested with start    *)
(* equal to the number of entries collected so far; the retrieval          *)
(* terminates whatever the server answers; and on return at least          *)
(* total_results entries have been collected.                              *)
C23_PagedRetrieval ==
    /\ <>(pc \in {"search_done", "RuntimeError"})
    /\ [](pc = "search_done" => Len(result) >= max_index)
    /\ [][pc = "page_loop" /\ pc' # "search_done" => start' = Len(entries)]_vars

----------------------------------------------------------------------------
(* Properties of Dataset.filter (SpecD) *)

(* low is tiles with some elements left out, the order kept *)
IsSubList(low, all) ==
    \E f \in [1..Len(low) -> 1..Len(all)] :
        /\ \A j, k \in 1..Len(low) : j < k => f[j] < f[k]
        /\ \A k \in 1..Len(low) : low[k] = all[f[k]]

(* C24: Dataset.filter(remove_empty=True) on a dataset loaded with        *)
(* Tile.from_path raises nothing and returns a dataset without tiles of   *)
(* zero patches; its tiles are a sub-list of the original tiles in the    *)
(* same order, the original tile list is unchanged, and filterargs grows  *)
(* by the one filter applied.                                             *)
C24_RemoveEmpty ==
    /\ pc # "AttributeError"
    /\ (pc = "filtered" /\ low_filterargs[Len(low_filterargs)].remove_empty) =>
           /\ \A k \in 1..Len(low_tiles) : Len(low_tiles[k].patches) > 0
           /\ IsSubList(low_tiles, tiles)
           /\ tiles = [k \in 1..Len(files) |-> from_path(files[k])]
           /\ low_filterargs = filterargs \o <<[remove_empty |-> TRUE]>>

----------------------------------------------------------------------------
(* Area comparisons (SpecA) *)

(* the area shape k adds to the union of the shapes before it *)
AddedArea(k) == Area(shapes[k] \ UNION {shapes[j] : j \in 1..(k - 1)})

(* C25: area comparisons use a tolerance.  There is a tolerance, a        *)
(* positive area, such that Policy A keeps a later candidate only if the  *)
(* area it adds to the union exceeds the tolerance: a candidate adding a  *)
(* positive area within the tolerance is discarded.                       *)
C25_ToleranceA ==
    pc = "done" =>
        \E tolerance \in 1..NumCells :
            \A k \in 2..Len(shapes) :
                k \in Range(selected) => AddedArea(k) > tolerance

====
